---- MODULE Spec2Model ----
(***************************************************************************)
(* State-machine model of apps/sft.py: the handlers of the Gradio app      *)
(* (generate_system_prompt, generate_sample_dataset, generate_dataset,     *)
(* push_to_hub, upload_pipeline_code, show/hide_success_message), the      *)
(* worker process started by generate_dataset, and the event chains that   *)
(* wire the handlers to the buttons.                                       *)
(*                                                                         *)
(* Python values: None is the string NONE, a progress fraction n/d is the  *)
(* pair <<n, d>>, a table is a record [src, id, columns].                  *)
(***************************************************************************)
EXTENDS Integers, Sequences, FiniteSets, TLC

\* ------------------------------------------------------------- bounds
\* Number of button clicks (event chains) in one behaviour.
MaxClicks == 2
\* generate_dataset's duration table is explored for num_rows in 0..MaxRows.
MaxRows == 1001

\* ------------------------------------------------- program constants
\* sft.py:118  total_steps = 100
total_steps == 100

NONE == "<None>"

\* ------------------------------------------------------------- presets
\* The presets of pipelines/sft.py: (description, system prompt, sample
\* dataset) triples, one list per component.
DEFAULT_DATASET_DESCRIPTIONS == <<"desc_1", "desc_2">>
DEFAULT_SYSTEM_PROMPTS == <<"prompt_1", "prompt_2">>
DEFAULT_DATASETS ==
    << [src |-> "preset", id |-> 1, columns |-> {"prompt", "completion"}],
       [src |-> "preset", id |-> 2, columns |-> {"prompt", "completion"}] >>

NoTable == [src |-> "none", id |-> 0, columns |-> {}]

\* What the user may type into the two text areas.
Descriptions == {"desc_1", "desc_2", "desc_user"}
SystemPrompts == {"prompt_1", "prompt_2", "prompt_user"}
\* Values the org dropdown and the repo textbox may hand to push_to_hub.
OrgNames == {NONE, "", "org"}
RepoNames == {NONE, "", "my-distiset"}
\* gr.Number(minimum=1, maximum=4) and gr.Number(minimum=1, maximum=500).
TurnChoices == {1, 2}
RowChoices == {1, 10, 500}

VARIABLES
    chain,          \* the event chain being dispatched, or "none"
    idx,            \* position in the chain
    handler,        \* the function the event loop is running
    h_pc,           \* its position: "idle", "call", ..., "ok", "err"
    trace,          \* (fn, outcome) of the steps of this chain that ended
    clicks,         \* clicks so far; also identifies the generation run
    dataset_description, system_prompt, success_message,   \* widgets
    org_name, repo_name, repo_id, hub_called,  \* push_to_hub
    ret_prompt, ret_table,                     \* what a handler returned
    model_loaded, model_processed,             \* generate_system_prompt
    gd_pc, step, num_turns, num_rows, is_sample, duration,  \* generate_dataset
    worker, result_queue, distiset, joined,
    progress_log,   \* progress(...) calls of the running handler
    est             \* duration estimates under comparison (SpecDuration)

vars == << chain, idx, handler, h_pc, trace, clicks,
           dataset_description, system_prompt, success_message,
           org_name, repo_name, repo_id, hub_called,
           ret_prompt, ret_table, model_loaded, model_processed,
           gd_pc, step, num_turns, num_rows, is_sample, duration,
           worker, result_queue, distiset, joined, progress_log, est >>

uiVars == << dataset_description, system_prompt, success_message >>
chainVars == << chain, idx, handler, trace, clicks >>
pushVars == << org_name, repo_name, repo_id, hub_called >>
modelVars == << model_loaded, model_processed >>
reqVars == << num_turns, num_rows, is_sample, duration >>
procVars == << worker, result_queue, distiset, joined >>

\* ------------------------------------------------------ pure helpers
\* list.index(x): position of the first occurrence (0 when absent).
RECURSIVE IndexFrom(_, _, _)
IndexFrom(seq, x, i) ==
    IF i > Len(seq) THEN 0
    ELSE IF seq[i] = x THEN i
    ELSE IndexFrom(seq, x, i + 1)

Index(seq, x) == IndexFrom(seq, x, 1)

Contains(seq, x) == \E i \in 1..Len(seq) : seq[i] = x

\* Python truthiness of a str-or-None value.
Truthy(v) == v # NONE /\ v # ""

\* Variant of EstimateDuration: one branch of the table mistyped.
EstimateDuration_typo(n) ==
    IF n < 5 THEN 25
    ELSE IF n < 10 THEN 60
    ELSE IF n < 30 THEN 120
    ELSE IF n < 100 THEN 2400
    ELSE IF n < 300 THEN 600
    ELSE IF n < 1000 THEN 1200
    ELSE 2400

\* sft.py:95-108
EstimateDuration(n) ==
    IF n < 5 THEN 25
    ELSE IF n < 10 THEN 60
    ELSE IF n < 30 THEN 120
    ELSE IF n < 100 THEN 240
    ELSE IF n < 300 THEN 600
    ELSE IF n < 1000 THEN 1200
    ELSE 2400

\* Progress fractions as <<numerator, denominator>>.
Frac(n, d) == << n, d >>
FracLess(p, q) == p[1] * q[2] < q[1] * p[2]
FracOne == Frac(1, 1)
IsOne(p) == p[1] = p[2]

Emit(line, value) == Append(progress_log, [line |-> line, value |-> value])

\* ------------------------------------------------- the worker process
\* The process is alive from p.start() until it has exited.
Alive == worker \in {"running", "flushing"}
Terminated == worker \in {"exited", "crashed"}

\* What _run_pipeline puts on the queue: the Distiset of this run.  big says
\* whether its pickle exceeds the pipe's buffer.
Payload(big) ==
    [run |-> clicks, num_turns |-> num_turns,
     columns |-> IF num_turns = 1 THEN {"prompt", "completion"} ELSE {"messages"},
     big |-> big]

\* sft.py:30-32  pipeline.run returned; result_queue.put(distiset)
RunPipelinePut ==
    /\ worker = "running"
    /\ \E big \in BOOLEAN :
          result_queue' = Append(result_queue, Payload(big))
    /\ worker' = "flushing"
    /\ UNCHANGED << chainVars, h_pc, uiVars, pushVars, ret_prompt, ret_table,
                    modelVars, gd_pc, step, reqVars, distiset, joined,
                    progress_log, est >>

\* _run_pipeline returned: the process exits with code 0 once the queue's
\* feeder thread has written the item to the pipe, which for an item larger
\* than the pipe's buffer needs the reader to have taken it.
RunPipelineExit ==
    /\ worker = "flushing"
    /\ \A i \in 1..Len(result_queue) : ~result_queue[i].big
    /\ worker' = "exited"
    /\ UNCHANGED << chainVars, h_pc, uiVars, pushVars, ret_prompt, ret_table,
                    modelVars, gd_pc, step, reqVars, result_queue, distiset,
                    joined, progress_log, est >>

\* Variant of RunPipelineFails: the worker hands over what it has when the
\* pipeline raises.
RunPipelineFails_puts_partial ==
    /\ worker = "running"
    /\ result_queue' = Append(result_queue, Payload(FALSE))
    /\ worker' = "crashed"
    /\ UNCHANGED << chainVars, h_pc, uiVars, pushVars, ret_prompt, ret_table,
                    modelVars, gd_pc, step, reqVars, distiset, joined,
                    progress_log, est >>

\* sft.py:30-31  get_pipeline or pipeline.run raises, or the process is killed:
\* the process ends with nothing put on the queue.
RunPipelineFails ==
    /\ worker = "running"
    /\ worker' = "crashed"
    /\ UNCHANGED << chainVars, h_pc, uiVars, pushVars, ret_prompt, ret_table,
                    modelVars, gd_pc, step, reqVars, result_queue, distiset,
                    joined, progress_log, est >>

\* ---------------------------------------------------- generate_dataset
\* sft.py:88-114  entry: the duration estimate, a fresh queue, the process
\* object.
EnterGenerateDataset(turns, rows, sample) ==
    /\ num_turns' = turns
    /\ num_rows' = rows
    /\ is_sample' = sample
    /\ duration' = EstimateDuration(rows)
    /\ result_queue' = << >>
    /\ worker' = "unstarted"
    /\ distiset' = << >>
    /\ joined' = FALSE
    /\ step' = 0
    /\ gd_pc' = "start"

gdFrame == << chainVars, h_pc, uiVars, pushVars, ret_prompt, modelVars,
              reqVars, est >>

\* sft.py:117  p.start(), which may raise (caught at 128)
GD_Start ==
    /\ gd_pc = "start"
    /\ \/ /\ worker' = "running"
          /\ gd_pc' = "poll"
       \/ /\ gd_pc' = "error"
          /\ UNCHANGED worker
    /\ UNCHANGED << gdFrame, ret_table, step, result_queue, distiset, joined,
                    progress_log >>

\* Variant of AfterLoop: the result is read without joining the process.
AfterLoop_skips_join == "get"

\* sft.py:127  where control goes when the for loop ends or breaks
AfterLoop == "join"

\* sft.py:119-121  loop head: range exhausted, or break when the process is
\* no longer alive
GD_Poll ==
    /\ gd_pc = "poll"
    /\ gd_pc' = IF step >= total_steps \/ ~Alive THEN AfterLoop ELSE "progress"
    /\ UNCHANGED << gdFrame, ret_table, step, procVars, progress_log >>

\* sft.py:123  the fraction reported at loop index step
LoopFraction(s) == Frac(s + 1, total_steps)

\* sft.py:122-125  progress((step + 1) / total_steps, ...), which may raise
GD_Progress ==
    /\ gd_pc = "progress"
    /\ \/ /\ progress_log' = Emit(122, LoopFraction(step))
          /\ gd_pc' = "sleep"
       \/ /\ gd_pc' = "error"
          /\ UNCHANGED progress_log
    /\ UNCHANGED << gdFrame, ret_table, step, procVars >>

\* sft.py:126  time.sleep(duration / total_steps); next loop index
GD_Sleep ==
    /\ gd_pc = "sleep"
    /\ step' = step + 1
    /\ gd_pc' = "poll"
    /\ UNCHANGED << gdFrame, ret_table, procVars, progress_log >>

\* sft.py:127  p.join() returns once the process has terminated
GD_Join ==
    /\ gd_pc = "join"
    /\ Terminated
    /\ joined' = TRUE
    /\ gd_pc' = "get"
    /\ UNCHANGED << gdFrame, ret_table, step, worker, result_queue, distiset,
                    progress_log >>

\* sft.py:131  result_queue.get() blocks until an item is on the queue
GD_Get ==
    /\ gd_pc = "get"
    /\ result_queue # << >>
    /\ distiset' = << Head(result_queue) >>
    /\ result_queue' = Tail(result_queue)
    /\ gd_pc' = "convert"
    /\ UNCHANGED << gdFrame, ret_table, step, worker, joined, progress_log >>

\* sft.py:135-138  the columns selected from the train split
SelectedColumns(turns) ==
    IF turns = 1 THEN {"prompt", "completion"} ELSE {"messages"}

\* sft.py:134-141  select the columns (KeyError when one is missing), build
\* the dataframe, report completion
GD_Finish ==
    /\ gd_pc = "convert"
    /\ IF SelectedColumns(num_turns) \subseteq distiset[1].columns
       THEN /\ ret_table' = [src |-> "pipeline", id |-> distiset[1].run,
                             columns |-> SelectedColumns(num_turns)]
            /\ progress_log' = Emit(141, FracOne)
            /\ gd_pc' = "returned"
       ELSE /\ gd_pc' = "raised"
            /\ UNCHANGED << ret_table, progress_log >>
    /\ UNCHANGED << gdFrame, step, procVars >>

\* The positions at which generate_dataset has left: by return (142), by
\* gr.Error (129), by an uncaught exception.
GdLeft == {"returned", "error", "raised"}

GenerateDatasetStep ==
    \/ GD_Start \/ GD_Poll \/ GD_Progress \/ GD_Sleep
    \/ GD_Join \/ GD_Get \/ GD_Finish

\* ------------------------------------------------------- event chains
\* sft.py:237-254, 351-395: each listener with the way it is linked to the
\* one before it.  A step linked by then runs when the previous step has
\* ended, whether it returned or raised; a step linked by success runs only
\* when the previous step returned.
Chains ==
    [ btn_generate_system_prompt |->
          << [fn |-> "generate_system_prompt", link |-> "click"],
             [fn |-> "generate_sample_dataset", link |-> "then"] >>,
      btn_generate_sample_dataset |->
          << [fn |-> "generate_sample_dataset", link |-> "click"] >>,
      btn_generate_full_dataset |->
          << [fn |-> "hide_success_message", link |-> "click"],
             [fn |-> "generate_dataset", link |-> "then"] >>,
      btn_generate_and_push_to_hub |->
          << [fn |-> "hide_success_message", link |-> "click"],
             [fn |-> "generate_dataset", link |-> "then"],
             [fn |-> "push_to_hub", link |-> "then"],
             [fn |-> "upload_pipeline_code", link |-> "then"],
             [fn |-> "show_success_message", link |-> "success"] >>,
      btn_push_to_hub |->
          << [fn |-> "push_to_hub", link |-> "click"],
             [fn |-> "upload_pipeline_code", link |-> "then"],
             [fn |-> "show_success_message", link |-> "success"] >> ]

Buttons == DOMAIN Chains

\* Whether a step with this link runs after a step that ended with outcome.
Triggers(link, outcome) ==
    \/ link = "then"
    \/ link = "success" /\ outcome = "ok"

\* The locals of a handler are gone once it has returned or raised.
ClearLocals ==
    /\ org_name' = NONE
    /\ repo_name' = NONE
    /\ repo_id' = << >>
    /\ hub_called' = FALSE
    /\ ret_prompt' = ""
    /\ ret_table' = NoTable
    /\ model_loaded' = FALSE
    /\ model_processed' = FALSE
    /\ progress_log' = << >>

ClearGenerateDataset ==
    /\ gd_pc' = "idle"
    /\ step' = 0
    /\ num_turns' = 1
    /\ num_rows' = 1
    /\ is_sample' = FALSE
    /\ duration' = 0
    /\ worker' = "unstarted"
    /\ result_queue' = << >>
    /\ distiset' = << >>
    /\ joined' = FALSE

\* A click on a button starts its chain.
Click(b) ==
    /\ chain = "none"
    /\ clicks < MaxClicks
    /\ chain' = b
    /\ idx' = 1
    /\ handler' = Chains[b][1].fn
    /\ h_pc' = "call"
    /\ trace' = << >>
    /\ clicks' = clicks + 1
    /\ UNCHANGED << uiVars, pushVars, ret_prompt, ret_table, modelVars,
                    gd_pc, step, reqVars, procVars, progress_log, est >>

\* The running step has ended: its outputs are written to the widgets
\* (outputs=[system_prompt] at 240) and the chain goes on or ends.
Advance ==
    /\ h_pc \in {"ok", "err"}
    /\ system_prompt' =
          IF handler = "generate_system_prompt" /\ h_pc = "ok"
          THEN ret_prompt ELSE system_prompt
    /\ IF idx < Len(Chains[chain]) /\ Triggers(Chains[chain][idx + 1].link, h_pc)
       THEN /\ idx' = idx + 1
            /\ handler' = Chains[chain][idx + 1].fn
            /\ h_pc' = "call"
            /\ trace' = Append(trace, [fn |-> handler, outcome |-> h_pc])
            /\ UNCHANGED chain
       ELSE /\ idx' = 0
            /\ handler' = "none"
            /\ h_pc' = "idle"
            /\ trace' = << >>
            /\ chain' = "none"
    /\ ClearLocals
    /\ UNCHANGED << clicks, dataset_description, success_message, gd_pc, step,
                    reqVars, procVars, est >>

\* The user edits a text area between two clicks.
EditDescription(d) ==
    /\ chain = "none"
    /\ clicks < MaxClicks
    /\ d # dataset_description
    /\ dataset_description' = d
    /\ UNCHANGED << chainVars, h_pc, system_prompt, success_message, pushVars,
                    ret_prompt, ret_table, modelVars, gd_pc, step, reqVars,
                    procVars, progress_log, est >>

EditSystemPrompt(p) ==
    /\ chain = "none"
    /\ clicks < MaxClicks
    /\ p # system_prompt
    /\ system_prompt' = p
    /\ UNCHANGED << chainVars, h_pc, dataset_description, success_message,
                    pushVars, ret_prompt, ret_table, modelVars, gd_pc, step,
                    reqVars, procVars, progress_log, est >>

\* ------------------------------------------- show/hide_success_message
\* sft.py:311-326
ShowSuccessMessage ==
    /\ handler = "show_success_message" /\ h_pc = "call"
    /\ success_message' = TRUE
    /\ h_pc' = "ok"
    /\ UNCHANGED << chainVars, dataset_description, system_prompt, pushVars,
                    ret_prompt, ret_table, modelVars, gd_pc, step, reqVars,
                    procVars, progress_log, est >>

\* sft.py:328-329
HideSuccessMessage ==
    /\ handler = "hide_success_message" /\ h_pc = "call"
    /\ success_message' = FALSE
    /\ h_pc' = "ok"
    /\ UNCHANGED << chainVars, dataset_description, system_prompt, pushVars,
                    ret_prompt, ret_table, modelVars, gd_pc, step, reqVars,
                    procVars, progress_log, est >>

\* ----------------------------------------------- generate_system_prompt
\* Variant of PresetPrompt: the description is looked up in the wrong list.
PresetPrompt_wrong_list(description) ==
    /\ Contains(DEFAULT_SYSTEM_PROMPTS, description)
    /\ Index(DEFAULT_SYSTEM_PROMPTS, description) <= Len(DEFAULT_SYSTEM_PROMPTS)

\* sft.py:36-38  the preset short cut applies
PresetPrompt(description) ==
    /\ Contains(DEFAULT_DATASET_DESCRIPTIONS, description)
    /\ Index(DEFAULT_DATASET_DESCRIPTIONS, description) <= Len(DEFAULT_SYSTEM_PROMPTS)

\* sft.py:36-39
GSP_Call ==
    /\ handler = "generate_system_prompt" /\ h_pc = "call"
    /\ IF PresetPrompt(dataset_description)
       THEN /\ ret_prompt' =
                  DEFAULT_SYSTEM_PROMPTS[Index(DEFAULT_DATASET_DESCRIPTIONS,
                                               dataset_description)]
            /\ h_pc' = "ok"
       ELSE /\ h_pc' = "gsp_init"
            /\ UNCHANGED ret_prompt
    /\ UNCHANGED << chainVars, uiVars, pushVars, ret_table, modelVars, gd_pc,
                    step, reqVars, procVars, progress_log, est >>

\* sft.py:41-43
GSP_Init ==
    /\ handler = "generate_system_prompt" /\ h_pc = "gsp_init"
    /\ progress_log' =
          Append(Emit(41, Frac(1, 10)), [line |-> 43, value |-> Frac(4, 10)])
    /\ h_pc' = "gsp_load"
    /\ UNCHANGED << chainVars, uiVars, pushVars, ret_prompt, ret_table,
                    modelVars, gd_pc, step, reqVars, procVars, est >>

\* sft.py:44-45  generate_description.load(), which may raise
GSP_Load ==
    /\ handler = "generate_system_prompt" /\ h_pc = "gsp_load"
    /\ model_loaded' = TRUE
    /\ \/ /\ progress_log' = Emit(45, Frac(7, 10))
          /\ h_pc' = "gsp_process"
       \/ /\ h_pc' = "err"
          /\ UNCHANGED progress_log
    /\ UNCHANGED << chainVars, uiVars, pushVars, ret_prompt, ret_table,
                    model_processed, gd_pc, step, reqVars, procVars, est >>

\* sft.py:46-57  generate_description.process(...), which may raise; the
\* generation is whatever the model writes
GSP_Process ==
    /\ handler = "generate_system_prompt" /\ h_pc = "gsp_process"
    /\ model_processed' = TRUE
    /\ \/ \E generation \in SystemPrompts :
             /\ ret_prompt' = generation
             /\ progress_log' = Emit(56, FracOne)
             /\ h_pc' = "ok"
       \/ /\ h_pc' = "err"
          /\ UNCHANGED << ret_prompt, progress_log >>
    /\ UNCHANGED << chainVars, uiVars, pushVars, ret_table, model_loaded,
                    gd_pc, step, reqVars, procVars, est >>

\* ---------------------------------------------- generate_sample_dataset
\* Variant of PresetSample: the prompt is looked up in the wrong list.
PresetSample_wrong_list(prompt) ==
    /\ Contains(DEFAULT_DATASET_DESCRIPTIONS, prompt)
    /\ Index(DEFAULT_DATASET_DESCRIPTIONS, prompt) <= Len(DEFAULT_DATASETS)

\* sft.py:61-63  the preset short cut applies
PresetSample(prompt) ==
    /\ Contains(DEFAULT_SYSTEM_PROMPTS, prompt)
    /\ Index(DEFAULT_SYSTEM_PROMPTS, prompt) <= Len(DEFAULT_DATASETS)

\* sft.py:61-64
GS_Call ==
    /\ handler = "generate_sample_dataset" /\ h_pc = "call"
    /\ IF PresetSample(system_prompt)
       THEN /\ ret_table' = DEFAULT_DATASETS[Index(DEFAULT_SYSTEM_PROMPTS, system_prompt)]
            /\ h_pc' = "ok"
       ELSE /\ h_pc' = "gs_generate"
            /\ UNCHANGED ret_table
    /\ UNCHANGED << chainVars, uiVars, pushVars, ret_prompt, modelVars, gd_pc,
                    step, reqVars, procVars, progress_log, est >>

\* sft.py:66-69  progress(0.1, ...), then the call of generate_dataset with
\* num_turns=1, num_rows=1, is_sample=True
GS_Generate ==
    /\ handler = "generate_sample_dataset" /\ h_pc = "gs_generate"
    /\ progress_log' = Emit(66, Frac(1, 10))
    /\ EnterGenerateDataset(1, 1, TRUE)
    /\ h_pc' = "in_generate_dataset"
    /\ UNCHANGED << chainVars, uiVars, pushVars, ret_prompt, ret_table,
                    modelVars, est >>

\* sft.py:70-71
GS_Done ==
    /\ handler = "generate_sample_dataset" /\ h_pc = "gs_done"
    /\ progress_log' = Emit(70, FracOne)
    /\ h_pc' = "ok"
    /\ UNCHANGED << chainVars, uiVars, pushVars, ret_prompt, ret_table,
                    modelVars, gd_pc, step, reqVars, procVars, est >>

\* ------------------------------- generate_dataset as a step of a chain
\* sft.py:355-357, 364-366  inputs=[system_prompt, num_turns, num_rows]
GD_Call ==
    /\ handler = "generate_dataset" /\ h_pc = "call"
    /\ \E turns \in TurnChoices, rows \in RowChoices :
          EnterGenerateDataset(turns, rows, FALSE)
    /\ h_pc' = "in_generate_dataset"
    /\ UNCHANGED << chainVars, uiVars, pushVars, ret_prompt, ret_table,
                    modelVars, progress_log, est >>

\* generate_dataset has returned (142) or raised (129): control is back in
\* the caller.  The process object and the queue were its locals; a worker
\* that is still running keeps running.
GD_Return ==
    /\ h_pc = "in_generate_dataset"
    /\ gd_pc \in GdLeft
    /\ h_pc' = IF gd_pc # "returned" THEN "err"
               ELSE IF handler = "generate_sample_dataset" THEN "gs_done"
               ELSE "ok"
    /\ ClearGenerateDataset
    /\ UNCHANGED << chainVars, uiVars, pushVars, ret_prompt, ret_table,
                    modelVars, progress_log, est >>

\* ---------------------------------------------------------- push_to_hub
\* sft.py:74-85  the repo id "org/repo" is the pair <<org, repo>>, None is
\* << >>; a string that holds "/" is truthy.
CheckPushToHub(org, repo) ==
    LET id == IF repo # NONE /\ org # NONE THEN << org, repo >> ELSE << >>
    IN  IF id # << >> /\ ~(Truthy(org) /\ Truthy(repo))
        THEN [raised |-> TRUE, repo_id |-> << >>]
        ELSE [raised |-> FALSE, repo_id |-> id]

\* sft.py:152  repo_id = _check_push_to_hub(org_name, repo_name), with the
\* values the org dropdown and the repo textbox hold
PH_Check ==
    /\ handler = "push_to_hub" /\ h_pc = "call"
    /\ \E org \in OrgNames, repo \in RepoNames :
          /\ org_name' = org
          /\ repo_name' = repo
          /\ repo_id' = CheckPushToHub(org, repo).repo_id
          /\ h_pc' = IF CheckPushToHub(org, repo).raised THEN "err" ELSE "ph_push"
    /\ UNCHANGED << chainVars, uiVars, hub_called, ret_prompt, ret_table,
                    modelVars, gd_pc, step, reqVars, procVars, progress_log, est >>

\* sft.py:153-164  distiset.push_to_hub(repo_id=repo_id, ...): the hub
\* accepts the upload or the call raises
PH_Push ==
    /\ handler = "push_to_hub" /\ h_pc = "ph_push"
    /\ hub_called' = TRUE
    /\ \/ h_pc' = "ok"
       \/ h_pc' = "err"
    /\ UNCHANGED << chainVars, uiVars, org_name, repo_name, repo_id,
                    ret_prompt, ret_table, modelVars, gd_pc, step, reqVars,
                    procVars, progress_log, est >>

\* ------------------------------------------------- upload_pipeline_code
\* sft.py:167-178  upload_file(...) returns or raises
UploadPipelineCode ==
    /\ handler = "upload_pipeline_code" /\ h_pc = "call"
    /\ \/ h_pc' = "ok"
       \/ h_pc' = "err"
    /\ UNCHANGED << chainVars, uiVars, pushVars, ret_prompt, ret_table,
                    modelVars, gd_pc, step, reqVars, procVars, progress_log, est >>

\* ------------------------------------------------- duration estimates
\* Two requests a <= b and the durations generate_dataset derives for them.
RowsDomain == 0..MaxRows

EstimateFirst ==
    /\ est.phase = "input"
    /\ est' = [est EXCEPT !.phase = "first", !.da = EstimateDuration(est.a)]
    /\ UNCHANGED << chainVars, h_pc, uiVars, pushVars, ret_prompt, ret_table,
                    modelVars, gd_pc, step, reqVars, procVars, progress_log >>

EstimateSecond ==
    /\ est.phase = "first"
    /\ \E b \in RowsDomain :
          /\ est.a <= b
          /\ est' = [est EXCEPT !.phase = "both", !.b = b,
                                !.db = EstimateDuration(b)]
    /\ UNCHANGED << chainVars, h_pc, uiVars, pushVars, ret_prompt, ret_table,
                    modelVars, gd_pc, step, reqVars, procVars, progress_log >>

\* ------------------------------------------------------ specifications
NoEstimate == [phase |-> "off", a |-> 0, b |-> 0, da |-> 0, db |-> 0]

\* The app as built by the with gr.Blocks() block: sft.py:203, 218, 309.
InitApp ==
    /\ chain = "none"
    /\ idx = 0
    /\ handler = "none"
    /\ h_pc = "idle"
    /\ trace = << >>
    /\ clicks = 0
    /\ dataset_description = DEFAULT_DATASET_DESCRIPTIONS[1]
    /\ system_prompt = DEFAULT_SYSTEM_PROMPTS[1]
    /\ success_message = FALSE
    /\ org_name = NONE
    /\ repo_name = NONE
    /\ repo_id = << >>
    /\ hub_called = FALSE
    /\ ret_prompt = ""
    /\ ret_table = NoTable
    /\ model_loaded = FALSE
    /\ model_processed = FALSE
    /\ gd_pc = "idle"
    /\ step = 0
    /\ num_turns = 1
    /\ num_rows = 1
    /\ is_sample = FALSE
    /\ duration = 0
    /\ worker = "unstarted"
    /\ result_queue = << >>
    /\ distiset = << >>
    /\ joined = FALSE
    /\ progress_log = << >>

Init ==
    /\ InitApp
    /\ est = NoEstimate

Next ==
    \/ \E b \in Buttons : Click(b)
    \/ Advance
    \/ \E d \in Descriptions : EditDescription(d)
    \/ \E p \in SystemPrompts : EditSystemPrompt(p)
    \/ ShowSuccessMessage
    \/ HideSuccessMessage
    \/ GSP_Call \/ GSP_Init \/ GSP_Load \/ GSP_Process
    \/ GS_Call \/ GS_Generate \/ GS_Done
    \/ GD_Call \/ GenerateDatasetStep \/ GD_Return
    \/ RunPipelinePut \/ RunPipelineExit \/ RunPipelineFails
    \/ PH_Check \/ PH_Push
    \/ UploadPipelineCode

Spec == Init /\ [][Next]_vars

InitDuration ==
    /\ InitApp
    /\ \E a \in RowsDomain : est = [NoEstimate EXCEPT !.phase = "input", !.a = a]

NextDuration == EstimateFirst \/ EstimateSecond

SpecDuration == InitDuration /\ [][NextDuration]_vars


\* ------------------------------------------------------------- claims
InGenerateDataset == gd_pc # "idle"

\* Whether step fn of the running chain has ended with outcome "ok".
Completed(fn) ==
    \E i \in 1..Len(trace) : trace[i].fn = fn /\ trace[i].outcome = "ok"

AbsentName(v) == v = NONE \/ v = ""

\* C1: when the worker ends with nothing put on the queue (the pipeline
\* raised or the process was killed), generate_dataset does not return a
\* table and is never blocked: until it has failed it can take another step.
C1_WorkerFailureRaisesError ==
    (InGenerateDataset /\ worker = "crashed") =>
        /\ gd_pc # "returned"
        /\ gd_pc \notin GdLeft => ENABLED GenerateDatasetStep

\* C2: once push_to_hub has read an organization or repository name that is
\* None or empty, it has raised and Distiset.push_to_hub is not called.
C2_AbsentNameRejected ==
    ( /\ handler = "push_to_hub"
      /\ h_pc # "call"
      /\ (AbsentName(org_name) \/ AbsentName(repo_name)) ) =>
        /\ h_pc = "err"
        /\ ~hub_called

\* The progress events of generate_dataset itself: sft.py:122 and 141.
GdProgress == SelectSeq(progress_log, LAMBDA e : e.line \in {122, 141})

\* C3: the progress values generate_dataset emits (lines 122 and 141) are
\* strictly increasing, those of the polling loop lie in [0,1), and 1.0 is
\* emitted only by the completion event of line 141.
C3_ProgressStrictlyIncreasing ==
    LET log == GdProgress
    IN  /\ \A i \in 1..(Len(log) - 1) : FracLess(log[i].value, log[i + 1].value)
        /\ \A i \in 1..Len(log) :
              /\ log[i].line = 122 =>
                    /\ log[i].value[1] >= 0
                    /\ FracLess(log[i].value, FracOne)
              /\ IsOne(log[i].value) => log[i].line = 141

\* C4: the result has been taken from the queue only if the worker process
\* has terminated and p.join() has returned, after an early break as well
\* as after all total_steps polling steps.
C4_GetAfterJoin ==
    (distiset # << >> \/ gd_pc \in {"convert", "returned", "raised"}) =>
        /\ joined
        /\ Terminated

\* C4 witness: the result was taken in a run whose worker was still alive at
\* the last polling step.
C4_Witness ==
    /\ gd_pc = "convert"
    /\ step = total_steps
    /\ Len(GdProgress) = total_steps
    /\ joined

\* C5: when generate_dataset leaves with the error raised at line 129, its
\* worker process is not running.
C5_ErrorLeavesNoWorker ==
    gd_pc = "error" => ~Alive

\* C6: generate_dataset returns a table only when its worker ran the
\* pipeline to the end, exited and put this run's result on the queue; a
\* run whose worker failed or that raised yields no table.
C6_TableOnlyFromCompletedRun ==
    /\ gd_pc = "returned" =>
          /\ worker = "exited"
          /\ distiset = << Payload(FALSE) >>
          /\ ret_table = [src |-> "pipeline", id |-> clicks,
                          columns |-> SelectedColumns(num_turns)]
    /\ (InGenerateDataset /\ (worker = "crashed" \/ gd_pc \in {"error", "raised"})) =>
          /\ gd_pc # "returned"
          /\ ret_table = NoTable
    /\ (handler \in {"generate_dataset", "generate_sample_dataset"}
            /\ h_pc \in {"in_generate_dataset", "err"}
            /\ gd_pc # "returned") =>
          ret_table = NoTable

\* C6 witness: the second run of a behaviour returns its table.
C6_Witness ==
    /\ gd_pc = "returned"
    /\ handler = "generate_dataset"
    /\ ret_table.src = "pipeline"
    /\ ret_table.id = clicks
    /\ num_turns = 2
    /\ clicks = 2

\* C7: for a description of the preset list, generate_system_prompt returns
\* the preset prompt of the same index and neither loads nor runs the
\* text-generation step.
C7_PresetPromptWithoutModel ==
    ( /\ handler = "generate_system_prompt"
      /\ Contains(DEFAULT_DATASET_DESCRIPTIONS, dataset_description) ) =>
        /\ ~model_loaded
        /\ ~model_processed
        /\ progress_log = << >>
        /\ h_pc \in {"call", "ok"}
        /\ h_pc = "ok" =>
              \A i \in 1..Len(DEFAULT_DATASET_DESCRIPTIONS) :
                 DEFAULT_DATASET_DESCRIPTIONS[i] = dataset_description =>
                    /\ i <= Len(DEFAULT_SYSTEM_PROMPTS)
                    /\ ret_prompt = DEFAULT_SYSTEM_PROMPTS[i]

\* C7 witness: the second preset description has been answered.
C7_Witness ==
    /\ handler = "generate_system_prompt"
    /\ h_pc = "ok"
    /\ dataset_description = DEFAULT_DATASET_DESCRIPTIONS[2]
    /\ ret_prompt = DEFAULT_SYSTEM_PROMPTS[2]

\* C8: for a system prompt of the preset list, generate_sample_dataset
\* returns the preset sample of the same index, does not call
\* generate_dataset and starts no worker process.
C8_PresetSampleWithoutRunner ==
    ( /\ handler = "generate_sample_dataset"
      /\ Contains(DEFAULT_SYSTEM_PROMPTS, system_prompt) ) =>
        /\ ~InGenerateDataset
        /\ worker = "unstarted"
        /\ progress_log = << >>
        /\ h_pc \in {"call", "ok"}
        /\ h_pc = "ok" =>
              \A i \in 1..Len(DEFAULT_SYSTEM_PROMPTS) :
                 DEFAULT_SYSTEM_PROMPTS[i] = system_prompt =>
                    /\ i <= Len(DEFAULT_DATASETS)
                    /\ ret_table = DEFAULT_DATASETS[i]

\* C8 witness: the second preset system prompt has been answered.
C8_Witness ==
    /\ handler = "generate_sample_dataset"
    /\ h_pc = "ok"
    /\ system_prompt = DEFAULT_SYSTEM_PROMPTS[2]
    /\ ret_table = DEFAULT_DATASETS[2]

\* C9: the duration estimate is monotonically non-decreasing in num_rows:
\* for a <= b, the estimate for a is at most the estimate for b.
C9_DurationMonotone ==
    est.phase = "both" => est.da <= est.db

\* C9 witness: two requests at the two ends of the table were compared.
C9_Witness ==
    /\ est.phase = "both"
    /\ est.a < 5
    /\ est.b >= 1000
    /\ est.da < est.db

\* C10: show_success_message has run only in a chain in which push_to_hub
\* and upload_pipeline_code both returned, and in the 'Generate and Push to
\* Hub' chain push_to_hub is invoked only after generate_dataset returned.
C10_SuccessOnlyAfterPublish ==
    /\ (handler = "show_success_message" /\ h_pc = "ok") =>
          /\ Completed("push_to_hub")
          /\ Completed("upload_pipeline_code")
    /\ (chain = "btn_generate_and_push_to_hub" /\ handler = "push_to_hub") =>
          Completed("generate_dataset")

====
